---- MODULE Spec2Model ----
\* Model of app/main.py: Deck, Ship and Battleship (py-battleship).
\* A coordinate is a pair <<row, column>>; a ship specification is a pair
\* <<start, end>> of coordinates; a Ship object is identified by its position
\* in the list given to the Battleship constructor.
EXTENDS Integers, Sequences, FiniteSets, TLC

VARIABLES fleet,    \* the constructor argument: a list of ship specifications
          status,   \* "new" before construction, then the outcome
          ships,    \* the Ship objects, by position in the list
          fields,   \* Battleship.fields: coordinate -> Ship object
          shots,    \* history: how often each coordinate was fired (2 = twice or more)
          nshots,   \* history: number of Battleship.fire calls so far
          lastLoc,  \* argument of the latest Battleship.fire call
          result    \* return value of the latest Battleship.fire call

vars == <<fleet, status, ships, fields, shots, nshots, lastLoc, result>>

\* ---------------------------------------------------------------- bounds
MaxShots == 4       \* Battleship.fire calls explored on one board
MaxFleetLen == 11   \* longest ship list handed to the constructor

\* ------------------------------------------------------- program constants
GridSize == 10
TotalShips == 10
required_counts == <<4, 3, 2, 1>>   \* {1: 4, 2: 3, 3: 2, 4: 1}

Min(a, b) == IF a <= b THEN a ELSE b
Grid == (0 .. GridSize - 1) \X (0 .. GridSize - 1)
NoLoc == <<>>

\* ------------------------------------------------------------------- Deck
states == <<"ALIVE", "HIT", "SUNK">>

StatesIndex(deck) == CHOOSE i \in 1 .. Len(states) : states[i] = deck

\* Variant: the index wraps around instead of saturating.
DeckNextWrap(deck) == states[(StatesIndex(deck) % Len(states)) + 1]

DeckNext(deck) == states[Min(StatesIndex(deck) + 1, Len(states))]

\* ------------------------------------------------------------------- Ship
create_decks(start, end) ==
    LET cells == { <<start[1], column>> : column \in start[2] .. end[2] }
                 \cup { <<row, start[2]>> : row \in start[1] .. end[1] }
    IN  [cell \in cells |-> "ALIVE"]

NewShip(start, end) ==
    [decks |-> create_decks(start, end), is_drowned |-> FALSE]

ShipLen(ship) == Cardinality(DOMAIN ship.decks)

get_ship_cells(ship) == DOMAIN ship.decks

\* Variant: the drowned flag is recomputed on every shot, without the guard.
ShipFireRecomputeFlag(ship, loc) ==
    LET hit == [ship.decks EXCEPT ![loc] = DeckNext(@)]
    IN  IF \A cell \in DOMAIN hit : hit[cell] = "HIT"
        THEN [decks |-> [cell \in DOMAIN hit |-> DeckNext(hit[cell])],
              is_drowned |-> TRUE]
        ELSE [decks |-> hit, is_drowned |-> FALSE]

ShipFire(ship, loc) ==
    IF ~ship.is_drowned
    THEN LET hit == [ship.decks EXCEPT ![loc] = DeckNext(@)]
         IN  IF \A cell \in DOMAIN hit : hit[cell] = "HIT"
             THEN [decks |-> [cell \in DOMAIN hit |-> DeckNext(hit[cell])],
                   is_drowned |-> TRUE]
             ELSE [decks |-> hit, is_drowned |-> ship.is_drowned]
    ELSE ship

\* ------------------------------------------------------------- Battleship
RECURSIVE create_fields_loop(_, _, _)
create_fields_loop(list, i, acc) ==
    IF i > Len(list) THEN acc
    ELSE LET cells == get_ship_cells(NewShip(list[i][1], list[i][2]))
         IN  create_fields_loop(list, i + 1,
                 [cell \in (DOMAIN acc) \cup cells |->
                     IF cell \in cells THEN i ELSE acc[cell]])

create_fields(list) == create_fields_loop(list, 1, <<>>)

create_ships(list) == [i \in 1 .. Len(list) |-> NewShip(list[i][1], list[i][2])]

FieldShips(f) == { f[cell] : cell \in DOMAIN f }

ship_deck_counts(objs, ids, size) ==
    Cardinality({ i \in ids : ShipLen(objs[i]) = size })

\* Variant: the required counts lack the entry for 4-deck ships.
validate_ship_types_no_four(objs, ids) ==
    IF \E size \in (DOMAIN required_counts) \ {Len(required_counts)} :
           ship_deck_counts(objs, ids, size) # required_counts[size]
    THEN "ShipTypesCountError" ELSE "ok"

validate_ship_types(objs, ids) ==
    IF \E size \in DOMAIN required_counts :
           ship_deck_counts(objs, ids, size) # required_counts[size]
    THEN "ShipTypesCountError" ELSE "ok"

validate_ship_placement(objs, ids) == "ok"

\* Variant: the total is taken over the list of ships, not over the distinct
\* Ship objects the index references.
validate_field_list_count(objs, f) ==
    LET ids == FieldShips(f)
    IN  IF Len(objs) # TotalShips THEN "ShipTotalCountError"
        ELSE IF validate_ship_types(objs, ids) # "ok"
        THEN validate_ship_types(objs, ids)
        ELSE validate_ship_placement(objs, ids)

\* Variant: the composition is validated before the total count.
validate_field_types_first(objs, f) ==
    LET ids == FieldShips(f)
    IN  IF validate_ship_types(objs, ids) # "ok"
        THEN validate_ship_types(objs, ids)
        ELSE IF Cardinality(ids) # TotalShips THEN "ShipTotalCountError"
        ELSE validate_ship_placement(objs, ids)

validate_field(objs, f) ==
    LET ids == FieldShips(f)
    IN  IF Cardinality(ids) # TotalShips THEN "ShipTotalCountError"
        ELSE IF validate_ship_types(objs, ids) # "ok"
        THEN validate_ship_types(objs, ids)
        ELSE validate_ship_placement(objs, ids)

\* Variant: the drowned flag is not consulted for the return value.
BattleshipFireNeverSunk(f, objs, loc) ==
    IF loc \in DOMAIN f
    THEN LET id == f[loc]
             fired == ShipFire(objs[id], loc)
         IN  [ships |-> [objs EXCEPT ![id] = fired], result |-> "Hit!"]
    ELSE [ships |-> objs, result |-> "Miss!"]

\* Variant: membership is tested against the grid instead of the index, and
\* a grid cell without a ship is reported as a hit.
BattleshipFireGridTest(f, objs, loc) ==
    IF loc \in DOMAIN f
    THEN LET id == f[loc]
             fired == ShipFire(objs[id], loc)
         IN  [ships |-> [objs EXCEPT ![id] = fired],
              result |-> IF fired.is_drowned THEN "Sunk!" ELSE "Hit!"]
    ELSE [ships |-> objs, result |-> IF loc \in Grid THEN "Hit!" ELSE "Miss!"]

\* Variant: "Sunk!" is decided by the state of the fired deck instead of the
\* drowned flag of the ship.
BattleshipFireDeckSunk(f, objs, loc) ==
    IF loc \in DOMAIN f
    THEN LET id == f[loc]
             fired == ShipFire(objs[id], loc)
         IN  [ships |-> [objs EXCEPT ![id] = fired],
              result |-> IF fired.decks[loc] = "SUNK" THEN "Sunk!" ELSE "Hit!"]
    ELSE [ships |-> objs, result |-> "Miss!"]

\* Variant: the shot is delivered to every ship that has a deck at the
\* location, not only to the one the index maps it to.
BattleshipFireAllOwners(f, objs, loc) ==
    IF loc \in DOMAIN f
    THEN LET fired == [i \in DOMAIN objs |->
                          IF loc \in DOMAIN objs[i].decks
                          THEN ShipFire(objs[i], loc) ELSE objs[i]]
         IN  [ships |-> fired,
              result |-> IF fired[f[loc]].is_drowned THEN "Sunk!" ELSE "Hit!"]
    ELSE [ships |-> objs, result |-> "Miss!"]

BattleshipFire(f, objs, loc) ==
    IF loc \in DOMAIN f
    THEN LET id == f[loc]
             fired == ShipFire(objs[id], loc)
         IN  [ships |-> [objs EXCEPT ![id] = fired],
              result |-> IF fired.is_drowned THEN "Sunk!" ELSE "Hit!"]
    ELSE [ships |-> objs, result |-> "Miss!"]

\* ------------------------------------------------------------------ inputs
\* The fleet of the demo driver.
ReferenceFleet ==
    << <<<<2, 0>>, <<2, 3>>>>, <<<<4, 5>>, <<4, 6>>>>, <<<<3, 8>>, <<3, 9>>>>,
       <<<<6, 0>>, <<8, 0>>>>, <<<<6, 4>>, <<6, 6>>>>, <<<<6, 8>>, <<6, 9>>>>,
       <<<<9, 9>>, <<9, 9>>>>, <<<<9, 5>>, <<9, 5>>>>, <<<<9, 3>>, <<9, 3>>>>,
       <<<<9, 7>>, <<9, 7>>>> >>

\* The 1-deck ship of (9,7) moved to (9,6), next to the one at (9,5).
AdjacentFleet == [ReferenceFleet EXCEPT ![10] = <<<<9, 6>>, <<9, 6>>>>]

\* The 3-deck ship of column 0 moved up so that it shares (2,0) with the
\* 4-deck ship listed before it.
OverlapFleet == [ReferenceFleet EXCEPT ![4] = <<<<0, 0>>, <<2, 0>>>>]

NineFleet == SubSeq(ReferenceFleet, 1, 9)

GameFleets == { ReferenceFleet, AdjacentFleet, OverlapFleet, NineFleet }

\* Coordinates fired at: every grid cell next to or on a ship is too many to
\* enumerate with repetition, so shots go to the indexed cells and to three
\* coordinates that can never be indexed (one in the grid, two outside it).
MissCoords == { <<0, 4>>, <<-1, 0>>, <<10, 10>> }

ShotCoords(f) == (DOMAIN f) \cup MissCoords

\* Ship specifications the constructor inputs are drawn from: the reference
\* fleet, preceded by a 1-deck ship that the 4-deck ship overwrites in the
\* index, and followed by a second 4-deck ship, a 5-deck ship, a 1-deck ship
\* next to (9,5) and a 3-deck ship sharing (2,0) with the 4-deck ship.
Pool ==
    << <<<<2, 1>>, <<2, 1>>>> >> \o ReferenceFleet \o
    << <<<<0, 5>>, <<0, 8>>>>, <<<<4, 0>>, <<4, 4>>>>,
       <<<<9, 6>>, <<9, 6>>>>, <<<<0, 0>>, <<2, 0>>>> >>

RECURSIVE PickFrom(_, _, _)
PickFrom(list, picked, i) ==
    IF i > Len(list) THEN <<>>
    ELSE (IF i \in picked THEN <<list[i]>> ELSE <<>>)
         \o PickFrom(list, picked, i + 1)

BuildFleets ==
    { PickFrom(Pool, picked, 1) :
        picked \in { s \in SUBSET (1 .. Len(Pool)) : Cardinality(s) <= MaxFleetLen } }

\* ----------------------------------------------------------------- actions
Unbuilt ==
    /\ status = "new"
    /\ ships = <<>>
    /\ fields = <<>>
    /\ shots = <<>>
    /\ nshots = 0
    /\ lastLoc = NoLoc
    /\ result = "none"

\* Battleship.__init__: create_fields, then _validate_field.
Construct ==
    /\ status = "new"
    /\ ships' = create_ships(fleet)
    /\ fields' = create_fields(fleet)
    /\ status' = validate_field(ships', fields')
    /\ shots' = [cell \in ShotCoords(fields') |-> 0]
    /\ UNCHANGED <<fleet, nshots, lastLoc, result>>

\* Battleship.fire(location) on a board whose construction succeeded.
Fire(loc) ==
    /\ status = "ok"
    /\ nshots < MaxShots
    /\ LET out == BattleshipFire(fields, ships, loc)
       IN  /\ ships' = out.ships
           /\ result' = out.result
    /\ lastLoc' = loc
    /\ nshots' = nshots + 1
    /\ shots' = [shots EXCEPT ![loc] = Min(@ + 1, 2)]
    /\ UNCHANGED <<fleet, status, fields>>

\* Ship.__init__ on its own: Ship(start, end).
ConstructShip ==
    /\ status = "new"
    /\ ships' = <<NewShip(fleet[1][1], fleet[1][2])>>
    /\ status' = "ship"
    /\ UNCHANGED <<fleet, fields, shots, nshots, lastLoc, result>>

\* ---------------------------------------------------------- specifications
\* A game: construction from one of the named fleets, then shots.
Init == fleet \in GameFleets /\ Unbuilt
FireAny == \E loc \in ShotCoords(fields) : Fire(loc)
Next == Construct \/ FireAny
Spec == Init /\ [][Next]_vars

\* The Battleship constructor over the fleets drawn from Pool.
BuildInit == fleet \in BuildFleets /\ Unbuilt
BuildNext == Construct
BuildSpec == BuildInit /\ [][BuildNext]_vars

\* The Ship constructor over every pair of grid coordinates.
ShipInit == fleet \in { <<<<start, end>>>> : start \in Grid, end \in Grid } /\ Unbuilt
ShipNext == ConstructShip
ShipSpec == ShipInit /\ [][ShipNext]_vars

\* ------------------------------------------------------------- vocabulary
Abs(a) == IF a < 0 THEN 0 - a ELSE a

Built == status \notin {"new", "ship"}

Cells(i) == DOMAIN ships[i].decks

\* The fleet: the distinct Ship objects the index references.
FleetShips == FieldShips(fields)

AllSunk(i) == \A cell \in Cells(i) : ships[i].decks[cell] = "SUNK"

FiredOnce(i) == \A cell \in Cells(i) : shots[cell] = 1

\* A Battleship.fire call happened in this step.
Shot == nshots' = nshots + 1

\* Size -> number of fleet ships of that size, over the sizes that occur.
Distribution ==
    [size \in { ShipLen(ships[i]) : i \in FleetShips } |->
        Cardinality({ i \in FleetShips : ShipLen(ships[i]) = size })]

RequiredDistribution == [size \in 1 .. 4 |-> 5 - size]

\* Two distinct ships of the list have cells within one grid step.
TooClose ==
    \E i, j \in DOMAIN ships :
        /\ i # j
        /\ \E a \in Cells(i), b \in Cells(j) :
               Abs(a[1] - b[1]) <= 1 /\ Abs(a[2] - b[2]) <= 1

\* ----------------------------------------------------------------- claims
\* C1: on a constructed board, for every ship of the fleet whose cells were
\* each fired at most once: a shot at one of its cells returns "Hit!" while
\* some cell is still unfired and "Sunk!" when it completes the ship, and
\* once every cell was fired exactly once the ship is drowned with all
\* decks SUNK.
C1_SunkOnLastCell ==
    status = "ok" =>
        \A i \in FleetShips :
            (\A cell \in Cells(i) : shots[cell] <= 1) =>
                /\ FiredOnce(i) => ships[i].is_drowned /\ AllSunk(i)
                /\ lastLoc \in Cells(i) =>
                       result = IF FiredOnce(i) THEN "Sunk!" ELSE "Hit!"

\* C2: a fleet of 10 ships with the required size distribution in which two
\* distinct ships have cells within one grid step of each other is rejected
\* with ShipsTooCloseError.
C2_AdjacentRejected ==
    (Built /\ Len(fleet) = TotalShips /\ Cardinality(FleetShips) = TotalShips
        /\ Distribution = RequiredDistribution /\ TooClose)
        => status = "ShipsTooCloseError"

\* C3: whenever construction succeeds the fleet is 10 distinct ships with
\* distribution {1:4, 2:3, 3:2, 4:1} and the index has exactly 20 keys,
\* which are the cells of all the ships together.
C3_TwentyCells ==
    status = "ok" =>
        /\ Cardinality(FleetShips) = 10
        /\ Distribution = RequiredDistribution
        /\ Cardinality(DOMAIN fields) = 20
        /\ DOMAIN fields = UNION { Cells(i) : i \in FleetShips }

\* C4: a shot at a coordinate that is not a key of the index returns
\* "Miss!" and leaves every ship's decks and drowned flag unchanged.
C4_MissFrame ==
    [][(Shot /\ lastLoc' \notin DOMAIN fields)
          => (result' = "Miss!" /\ ships' = ships)]_vars

C4_Witness ==
    /\ status = "ok"
    /\ nshots >= 2
    /\ lastLoc \notin DOMAIN fields
    /\ lastLoc \notin Grid
    /\ result = "Miss!"
    /\ \E i \in FleetShips : \E cell \in Cells(i) : ships[i].decks[cell] = "HIT"

\* C5: once a ship is drowned, a further shot at any of its cells returns
\* "Sunk!" and changes no deck state and no drowned flag of any ship.
C5_SunkIdempotent ==
    [][(Shot /\ \E i \in DOMAIN ships :
                    ships[i].is_drowned /\ lastLoc' \in Cells(i))
          => (result' = "Sunk!" /\ ships' = ships)]_vars

C5_Witness ==
    /\ status = "ok"
    /\ result = "Sunk!"
    /\ shots[lastLoc] = 2
    /\ \E i \in FleetShips :
           /\ lastLoc \in Cells(i)
           /\ ShipLen(ships[i]) >= 2
           /\ ships[i].is_drowned
           /\ AllSunk(i)

\* C6: for a ship with two or more cells of which at least one was never
\* fired, the ship is not drowned and a shot at one of its cells returns
\* "Hit!".
C6_HitWhileCellsRemain ==
    status = "ok" =>
        \A i \in FleetShips :
            (ShipLen(ships[i]) >= 2 /\ \E cell \in Cells(i) : shots[cell] = 0) =>
                /\ ~ships[i].is_drowned
                /\ lastLoc \in Cells(i) => result = "Hit!"

\* C7: Ship construction from endpoints that differ on both axes fails with
\* ShipGeometryError.
C7_DiagonalRejected ==
    (status = "ship" \/ status = "ShipGeometryError") =>
        LET start == fleet[1][1]
            end == fleet[1][2]
        IN  (start[1] # end[1] /\ start[2] # end[2])
                => status = "ShipGeometryError"

\* C8: for in-grid endpoints sharing a row or a column the ship occupies
\* exactly the segment between them, so that its length is
\* |start.row - end.row| + |start.col - end.col| + 1, with every deck ALIVE
\* and is_drowned false.
C8_SegmentCells ==
    status = "ship" =>
        LET start == fleet[1][1]
            end == fleet[1][2]
            lo == <<Min(start[1], end[1]), Min(start[2], end[2])>>
            hi == <<start[1] + end[1] - lo[1], start[2] + end[2] - lo[2]>>
        IN  (start[1] = end[1] \/ start[2] = end[2]) =>
                /\ Cells(1) = (lo[1] .. hi[1]) \X (lo[2] .. hi[2])
                /\ ShipLen(ships[1])
                       = Abs(start[1] - end[1]) + Abs(start[2] - end[2]) + 1
                /\ \A cell \in Cells(1) : ships[1].decks[cell] = "ALIVE"
                /\ ~ships[1].is_drowned

\* C9: construction fails with ShipTotalCountError whenever the number of
\* distinct Ship objects the index references is not 10.
C9_TotalCount ==
    (Built /\ Cardinality(FleetShips) # 10) => status = "ShipTotalCountError"

\* Ten ships in the list, one of them overwritten in the index by a later one.
C9_Witness ==
    /\ status = "ShipTotalCountError"
    /\ Len(fleet) = 10
    /\ Cardinality(FleetShips) = 9

\* C10: with exactly 10 distinct ships in the index, construction fails with
\* ShipTypesCountError for every size distribution other than
\* {1:4, 2:3, 3:2, 4:1}.
C10_Composition ==
    (Built /\ Cardinality(FleetShips) = 10 /\ Distribution # RequiredDistribution)
        => status = "ShipTypesCountError"

\* Sizes 1..3 as required, and a 5-deck ship in place of the 4-deck ship.
C10_Witness ==
    /\ status = "ShipTypesCountError"
    /\ Cardinality(FleetShips) = 10
    /\ \E i \in FleetShips : ShipLen(ships[i]) = 5
    /\ \A size \in 1 .. 3 :
           size \in DOMAIN Distribution /\ Distribution[size] = 5 - size

\* C11: validation reports the first violated rule in the order count,
\* composition: a fleet that violates the count rule gets
\* ShipTotalCountError whatever else it violates, and a fleet of 10 ships
\* that violates the composition rule gets ShipTypesCountError, also when
\* ships are too close.
C11_FirstViolatedRule ==
    (Built /\ (Cardinality(FleetShips) # 10 \/ Distribution # RequiredDistribution))
        => status = IF Cardinality(FleetShips) # 10
                    THEN "ShipTotalCountError"
                    ELSE "ShipTypesCountError"

\* A fleet that breaks all three rules at once and gets the count error.
C11_Witness ==
    /\ status = "ShipTotalCountError"
    /\ Cardinality(FleetShips) = 11
    /\ Distribution # RequiredDistribution
    /\ \E i \in FleetShips : ShipLen(ships[i]) = 5
    /\ TooClose

\* C12: Battleship.fire never fails on a constructed board: every indexed
\* coordinate is a deck of the ship it is indexed to, every call returns one
\* of "Miss!", "Hit!", "Sunk!", and it returns "Sunk!" exactly when the
\* coordinate is in the index and its owning ship is drowned after the shot.
C12_ThreeOutcomes ==
    status = "ok" =>
        /\ \A loc \in DOMAIN fields : loc \in Cells(fields[loc])
        /\ nshots > 0 =>
               /\ result \in {"Miss!", "Hit!", "Sunk!"}
               /\ result = "Sunk!" <=>
                      (lastLoc \in DOMAIN fields /\ ships[fields[lastLoc]].is_drowned)
               /\ result = "Miss!" <=> lastLoc \notin DOMAIN fields

\* A repeated shot at a deck that shows SUNK on a ship still afloat.
C12_Witness ==
    /\ status = "ok"
    /\ lastLoc \in DOMAIN fields
    /\ shots[lastLoc] = 2
    /\ ships[fields[lastLoc]].decks[lastLoc] = "SUNK"
    /\ ~ships[fields[lastLoc]].is_drowned
    /\ result = "Hit!"

Rank(deck) == CASE deck = "ALIVE" -> 0 [] deck = "HIT" -> 1 [] deck = "SUNK" -> 2

\* C13: Deck.next is a saturating successor: next(ALIVE) = HIT,
\* next(HIT) = SUNK, next(SUNK) = SUNK, it never returns a state earlier
\* than its argument, and a shot that leaves the ship afloat moves the fired
\* deck by exactly this successor.
C13_SaturatingSuccessor ==
    [][/\ DeckNext("ALIVE") = "HIT"
       /\ DeckNext("HIT") = "SUNK"
       /\ DeckNext("SUNK") = "SUNK"
       /\ \A deck \in {"ALIVE", "HIT", "SUNK"} : Rank(DeckNext(deck)) >= Rank(deck)
       /\ (Shot /\ lastLoc' \in DOMAIN fields
                /\ ~ships'[fields[lastLoc']].is_drowned) =>
              LET before == ships[fields[lastLoc']].decks[lastLoc']
                  after == ships'[fields[lastLoc']].decks[lastLoc']
              IN  /\ Rank(after) = Min(Rank(before) + 1, 2)
                  /\ Rank(after) >= Rank(before)]_vars

\* Three shots at one cell of a ship that stays afloat: next was applied to
\* ALIVE, to HIT and to SUNK.
C13_Witness ==
    /\ status = "ok"
    /\ nshots = 3
    /\ lastLoc \in DOMAIN fields
    /\ shots[lastLoc] = 2
    /\ \A loc \in DOMAIN shots : loc # lastLoc => shots[loc] = 0
    /\ ~ships[fields[lastLoc]].is_drowned
    /\ ships[fields[lastLoc]].decks[lastLoc] = "SUNK"

\* C14: in every state reached by shots, a deck is SUNK only if its ship is
\* drowned, and a ship is drowned exactly when all of its decks are SUNK.
C14_SunkOnlyWhenDrowned ==
    status = "ok" =>
        \A i \in FleetShips :
            /\ \A cell \in Cells(i) :
                   ships[i].decks[cell] = "SUNK" => ships[i].is_drowned
            /\ ships[i].is_drowned <=> AllSunk(i)

\* C15: once every cell of a ship has been fired at least once, repeated
\* shots allowed, the ship is drowned, and the shot that completed the
\* coverage returned "Sunk!".
C15_SunkOnceCovered ==
    status = "ok" =>
        \A i \in FleetShips :
            (\A cell \in Cells(i) : shots[cell] >= 1) =>
                /\ ships[i].is_drowned
                /\ (lastLoc \in Cells(i) /\ shots[lastLoc] = 1) => result = "Sunk!"

\* C16: over any sequence of shots no deck moves backwards in the order
\* ALIVE < HIT < SUNK, no is_drowned flag goes from true to false, and the
\* index keeps its keys and the ship of each key.
C16_Monotonic ==
    [][status = "ok" =>
          /\ fields' = fields
          /\ DOMAIN ships' = DOMAIN ships
          /\ \A i \in DOMAIN ships :
                 /\ DOMAIN ships'[i].decks = Cells(i)
                 /\ ships[i].is_drowned => ships'[i].is_drowned
                 /\ \A cell \in Cells(i) :
                        Rank(ships'[i].decks[cell]) >= Rank(ships[i].decks[cell])]_vars

\* A further shot at a drowned ship, on a board where another ship shows a
\* SUNK deck while afloat.
C16_Witness ==
    /\ status = "ok"
    /\ lastLoc \in DOMAIN fields
    /\ shots[lastLoc] = 2
    /\ ships[fields[lastLoc]].is_drowned
    /\ \E i \in FleetShips :
           ~ships[i].is_drowned /\ \E cell \in Cells(i) : ships[i].decks[cell] # "ALIVE"

\* C17: a shot at an indexed coordinate changes only the ship the index
\* maps it to, and when it returns "Hit!" the only deck of that ship that
\* changes is the one at the fired coordinate.
C17_FireFrame ==
    [][(Shot /\ lastLoc' \in DOMAIN fields) =>
          LET owner == fields[lastLoc']
          IN  /\ \A i \in DOMAIN ships : i # owner => ships'[i] = ships[i]
              /\ result' = "Hit!" =>
                     \A cell \in Cells(owner) :
                         cell # lastLoc' =>
                             ships'[owner].decks[cell] = ships[owner].decks[cell]]_vars

\* A "Hit!" on the cell two ships share, with the other ship hit before.
C17_Witness ==
    /\ status = "ok"
    /\ result = "Hit!"
    /\ lastLoc \in DOMAIN fields
    /\ ships[fields[lastLoc]].decks[lastLoc] = "HIT"
    /\ \E i \in DOMAIN ships :
           /\ i # fields[lastLoc]
           /\ lastLoc \in Cells(i)
           /\ ships[i].decks[lastLoc] = "ALIVE"
           /\ \E cell \in Cells(i) : ships[i].decks[cell] = "HIT"

====
